---- MODULE Spec2Model ----
(***************************************************************************)
(* Execution semantics of the Vega VOP3P (packed) vector ALU instructions  *)
(* of src/arch/amdgpu/vega/insts/vop3p.cc.                                 *)
(*                                                                         *)
(* A 32-bit word (uint32_t, int32_t, one VGPR lane, a float bit pattern)   *)
(* is carried as the integer in -2^31 .. 2^31-1 that has the same bits in  *)
(* two's complement: the value of static_cast<int32_t>(word).  TLC's       *)
(* integers are 32 bits wide, so every addition or multiplication that can *)
(* leave that range is done on 16-bit limbs and wrapped.  A 64-bit lane    *)
(* value is the record [hi |-> bits 63:32, lo |-> bits 31:0].              *)
(***************************************************************************)
EXTENDS Integers, Sequences, FiniteSets, TLC

\* Number of lanes of a vector register (the loop bound of every lane loop).
\* The hardware value is 64; the model runs a narrower wavefront.
NumVecElemPerVecReg == 2

\* Number of 32-bit vector registers of the modelled register file.
NumVgprs == 12

Lanes == 0 .. (NumVecElemPerVecReg - 1)
Vgprs == 0 .. (NumVgprs - 1)

MaxI32 == 32767 * 65536 + 65535
MinI32 == (-MaxI32) - 1

-----------------------------------------------------------------------------
(* 32-bit two's-complement arithmetic on carriers                          *)

\* The word with upper half hi (any integer, taken modulo 2^16) and lower
\* half lo (0 .. 65535).
Word(hi, lo) == (((hi + 32768) % 65536) - 32768) * 65536 + lo

Hi16(w) == w \div 65536
Lo16(w) == w % 65536

\* uint32_t / int32_t addition: the sum modulo 2^32.
Add32(a, b) ==
    LET s == Lo16(a) + Lo16(b)
    IN  Word(Hi16(a) + Hi16(b) + (s \div 65536), s % 65536)

\* uint32_t multiplication of two values in 0 .. 65535: the product modulo
\* 2^32 (it never exceeds 2^32 - 2^17 + 1, so nothing is lost).
MulU32(a, b) ==
    LET a1 == a \div 256
        a0 == a % 256
        b1 == b \div 256
        b0 == b % 256
        mid == a1 * b0 + a0 * b1
        t == a0 * b0 + (mid % 256) * 256
    IN  Word(a1 * b1 + (mid \div 256) + (t \div 65536), t % 65536)

\* (x & (1 << i)) != 0
Bit(x, i) == ((x \div (2 ^ i)) % 2) = 1

\* base/bitfield.hh mask(N): the N low bits set.
mask(N) == (2 ^ N) - 1

\* base/bitfield.hh bits(val, first, last) on a 32-bit word.
bits(val, first, last) == (val \div (2 ^ last)) % (2 ^ (first - last + 1))

\* base/bitfield.hh sext<N>(val) for val in 0 .. 2^N - 1: the value of the
\* N-bit two's-complement field.
sext(N, val) == IF val >= 2 ^ (N - 1) THEN val - (2 ^ N) ELSE val

-----------------------------------------------------------------------------
(* Helper functions of vop3p.cc                                            *)

\* std::clamp(v, lo, hi) on signed values.
stdclamp(v, lo, hi) == IF v < lo THEN lo ELSE IF hi < v THEN hi ELSE v

\* a < b for uint32_t operands (carriers below zero are 2^31 and more).
LtU32(a, b) == IF (a < 0) = (b < 0) THEN a < b ELSE b < 0

\* std::clamp(v, lo, hi) on uint32_t values.
stdclampU(v, lo, hi) == IF LtU32(v, lo) THEN lo ELSE IF LtU32(hi, v) THEN hi ELSE v

\* dotClampI with the upper bound one too high.
dotClampI_maxOffByOne(N, value, clamp) ==
    IF ~clamp
    THEN value
    ELSE stdclamp(value, -(2 ^ (N - 1)), 2 ^ (N - 1))

\* template<int N> int32_t dotClampI(int32_t value, bool clamp)
dotClampI(N, value, clamp) ==
    IF ~clamp
    THEN value
    ELSE stdclamp(value, -(2 ^ (N - 1)), (2 ^ (N - 1)) - 1)

\* template<int N> uint32_t dotClampU(uint32_t value, bool clamp).  The
\* clamp is std::clamp<int32_t>: value, min and max are converted to
\* int32_t (the carrier is that conversion) and compared as signed.
dotClampU(N, value, clamp) ==
    IF ~clamp
    THEN value
    ELSE stdclamp(value, 0, (2 ^ N) - 1)

\* int16_t clampI16(int32_t value, bool clamp); the result is an int16_t.
clampI16(value, clamp) ==
    IF ~clamp
    THEN sext(16, value % 65536)
    ELSE stdclamp(value, -32768, 32767)

\* uint16_t clampU16(uint32_t value, bool clamp); the result is a uint16_t.
clampU16(value, clamp) ==
    IF ~clamp
    THEN value % 65536
    ELSE stdclampU(value, 0, 65535)

-----------------------------------------------------------------------------
(* Element operations (the opImpl closures)                                *)

\* V_PK_ADD_I16 ignoring its clamp flag.
V_PK_ADD_I16_wrapping(S0, S1, clamp) == clampI16(S0 + S1, FALSE)

\* V_PK_ADD_I16: S0 and S1 are int16_t, promoted to int for the sum.
V_PK_ADD_I16(S0, S1, clamp) == clampI16(S0 + S1, clamp)

\* V_PK_SUB_U16: S0 and S1 are uint16_t, promoted to int for the
\* difference, which is then converted to clampU16's uint32_t parameter: a
\* negative difference d becomes 2^32 + d, whose carrier is d.
V_PK_SUB_U16(S0, S1, clamp) == clampU16(S0 - S1, clamp)

\* The signed product loop clamping the running sum, not each product.
RECURSIVE dotLoopI_clampSum(_, _, _, _, _, _)
dotLoopI_clampSum(INBITS, S0r, S1r, clamp, i, Csum) ==
    IF i >= 32 \div INBITS
    THEN Csum
    ELSE LET S0i == bits(S0r, i * INBITS + INBITS - 1, i * INBITS)
             S1i == bits(S1r, i * INBITS + INBITS - 1, i * INBITS)
             C   == sext(INBITS, S0i) * sext(INBITS, S1i)
             sum == sext(INBITS, dotClampI(INBITS, Csum + C, clamp) % (mask(INBITS) + 1))
         IN  dotLoopI_clampSum(INBITS, S0r, S1r, clamp, i + 1, sum)

\* The product loop of the signed dot products, from element i on:
\*   C[i] = sext<INBITS>(S0[i]) * sext<INBITS>(S1[i]);
\*   C[i] = sext<INBITS>(dotClampI<INBITS>(C[i], clamp) & mask(INBITS));
\*   Csum += C[i];
\* The sign-extended elements lie in -2^15 .. 2^15 - 1, so the product
\* fits an int32_t; x & mask(N) keeps the N low bits of x.
RECURSIVE dotLoopI(_, _, _, _, _, _)
dotLoopI(INBITS, S0r, S1r, clamp, i, Csum) ==
    IF i >= 32 \div INBITS
    THEN Csum
    ELSE LET S0i == bits(S0r, i * INBITS + INBITS - 1, i * INBITS)
             S1i == bits(S1r, i * INBITS + INBITS - 1, i * INBITS)
             C   == sext(INBITS, S0i) * sext(INBITS, S1i)
             Cc  == sext(INBITS, dotClampI(INBITS, C, clamp) % (mask(INBITS) + 1))
         IN  dotLoopI(INBITS, S0r, S1r, clamp, i + 1, Add32(Csum, Cc))

\* The product loop of the unsigned dot products, from element i on:
\*   C[i] = S0[i] * S1[i];  C[i] = dotClampU<INBITS>(C[i], clamp);
\*   Csum += C[i];
RECURSIVE dotLoopU(_, _, _, _, _, _)
dotLoopU(INBITS, S0r, S1r, clamp, i, Csum) ==
    IF i >= 32 \div INBITS
    THEN Csum
    ELSE LET S0i == bits(S0r, i * INBITS + INBITS - 1, i * INBITS)
             S1i == bits(S1r, i * INBITS + INBITS - 1, i * INBITS)
             C   == MulU32(S0i, S1i)
             Cc  == dotClampU(INBITS, C, clamp)
         IN  dotLoopU(INBITS, S0r, S1r, clamp, i + 1, Add32(Csum, Cc))

\* Csum += S2 as a saturating signed addition.
addS2I_saturating(Csum, S2) ==
    IF Csum > 0 /\ S2 > MaxI32 - Csum THEN MaxI32
    ELSE IF Csum < 0 /\ S2 < MinI32 - Csum THEN MinI32
    ELSE Csum + S2

\* Csum += S2 of the signed dot products.  The operands are int32_t, so a
\* sum outside the int32 range is a signed overflow; the two's-complement
\* targets gem5 builds for compute it as the wrapped 32-bit sum, which is
\* what is returned through the reinterpret_cast to uint32_t.
addS2I(Csum, S2) == Add32(Csum, S2)

\* Csum += S2 of the unsigned dot products (uint32_t, modulo 2^32).
addS2U(Csum, S2) == Add32(Csum, S2)

V_DOT2_I32_I16(S0r, S1r, S2r, clamp) ==
    addS2I(dotLoopI(16, S0r, S1r, clamp, 0, 0), S2r)

V_DOT2_U32_U16(S0r, S1r, S2, clamp) ==
    addS2U(dotLoopU(16, S0r, S1r, clamp, 0, 0), S2)

V_DOT4_I32_I8(S0r, S1r, S2r, clamp) ==
    addS2I(dotLoopI(8, S0r, S1r, clamp, 0, 0), S2r)

V_DOT4_U32_U8(S0r, S1r, S2, clamp) ==
    addS2U(dotLoopU(8, S0r, S1r, clamp, 0, 0), S2)

V_DOT8_I32_I4(S0r, S1r, S2r, clamp) ==
    addS2I(dotLoopI(4, S0r, S1r, clamp, 0, 0), S2r)

V_DOT8_U32_U4(S0r, S1r, S2, clamp) ==
    addS2U(dotLoopU(4, S0r, S1r, clamp, 0, 0), S2)

-----------------------------------------------------------------------------
(* Single-precision values.  The registers of the model hold the bit       *)
(* patterns of the small integers +-0 .. +-MaxMag, on which the sums,      *)
(* products and fused multiply-adds of the packed-float instructions are   *)
(* exact, so no rounding takes place and IEEE-754 fixes every result.  A   *)
(* float value is [neg |-> its sign bit, mag |-> its magnitude].           *)

\* Largest magnitude of a float held in a source register.
MaxMag == 3

F(neg, mag) == [neg |-> neg, mag |-> mag]

FloatDom == { F(n, m) : n \in BOOLEAN, m \in 0 .. MaxMag }

\* The exponent of mag >= 1: 2^e <= mag < 2^(e+1).
Log2(mag) == CHOOSE e \in 0 .. 7 : 2 ^ e <= mag /\ mag < 2 ^ (e + 1)

\* *reinterpret_cast<uint32_t*>(&f): sign, biased exponent and the seven
\* leading fraction bits make the upper half; the lower half is zero for
\* every integer below 256.
F32Bits(f) ==
    LET sign == IF f.neg THEN 32768 ELSE 0
    IN  IF f.mag = 0
        THEN Word(sign, 0)
        ELSE LET e == Log2(f.mag)
             IN  Word(sign + (e + 127) * 128 + (f.mag - 2 ^ e) * (2 ^ (7 - e)), 0)

\* The bit pattern of every float a register holds.
F32Table == [f \in FloatDom |-> F32Bits(f)]

\* *reinterpret_cast<float*>(&w) for a word of the register file.
BitsF32(w) == CHOOSE f \in FloatDom : F32Table[f] = w

FVal(f) == IF f.neg THEN -f.mag ELSE f.mag

\* The float with the exact value v; a zero takes the sign zeroNeg.
FOfInt(v, zeroNeg) ==
    IF v = 0 THEN F(zeroNeg, 0) ELSE IF v < 0 THEN F(TRUE, -v) ELSE F(FALSE, v)

\* -x : flips the sign bit.
fneg(x) == F(~x.neg, x.mag)

\* x + y, round to nearest: an exact zero sum is +0 unless both are -0.
fadd(x, y) ==
    FOfInt(FVal(x) + FVal(y), x.mag = 0 /\ y.mag = 0 /\ x.neg /\ y.neg)

\* x * y : the sign is the exclusive or of the signs.
fmul(x, y) == F(x.neg # y.neg, x.mag * y.mag)

\* std::fma(x, y, z): the exact product plus z, rounded once.
fma(x, y, z) ==
    LET p == fmul(x, y)
    IN  IF p.mag = 0 /\ z.mag = 0
        THEN F(p.neg /\ z.neg, 0)
        ELSE FOfInt(FVal(p) + FVal(z), FALSE)

-----------------------------------------------------------------------------
(* State                                                                   *)

VARIABLES
    vrf,          \* the vector register file: vrf[reg][lane], 32-bit words
    execMask,     \* wf->execMask(lane)
    accumOffset,  \* wf->accumOffset
    pc,           \* "idle" before execute, then "done" or "panic"
    opcode,       \* _opcode of the executed instruction
    enc,          \* the instruction's instData / extData fields and flags
    warned,       \* a warn_if fired
    pre,          \* the register file when execute was called
    fn,           \* the element operation or helper that was applied
    arg,          \* its arguments
    out           \* its result

vars == <<vrf, execMask, accumOffset, pc, opcode, enc, warned, pre, fn, arg, out>>

laneVars == <<vrf, execMask, accumOffset, opcode, enc, warned, pre>>
elemVars == <<fn, arg, out>>

\* Register contents before the instruction: every register and lane holds
\* one of the eight floats +-0 .. +-3, neighbours differing.
Pool == << F(FALSE, 0), F(FALSE, 1), F(TRUE, 1), F(FALSE, 2),
           F(TRUE, 2), F(FALSE, 3), F(TRUE, 3), F(TRUE, 0) >>

RegInit(reg, lane) == F32Bits(Pool[((3 * reg + 5 * lane) % 8) + 1])

AccumOffsets == {4, 8}

NoEnc == [SRC0 |-> 0, SRC1 |-> 0, SRC2 |-> 0, VDST |-> 0,
          OPSEL |-> 0, OPSEL_HI |-> 0, OPSEL_HI2 |-> 0,
          NEG |-> 0, NEG_HI |-> 0, CLMP |-> FALSE,
          SDWA |-> FALSE, DPP |-> FALSE]

NoArg == [S0 |-> 0, S1 |-> 0, S2 |-> 0, N |-> 0, clamp |-> FALSE]

Init ==
    /\ vrf = [r \in Vgprs |-> [l \in Lanes |-> RegInit(r, l)]]
    /\ execMask \in [Lanes -> BOOLEAN]
    /\ accumOffset \in AccumOffsets
    /\ pc = "idle"
    /\ opcode = ""
    /\ enc = NoEnc
    /\ warned = FALSE
    /\ pre = vrf
    /\ fn = ""
    /\ arg = NoArg
    /\ out = 0

-----------------------------------------------------------------------------
(* Vector operands                                                         *)

\* ConstVecOperandU32 src(gpuDynInst, reg); src.readSrc(); src[lane]
ReadU32(rf, reg) == [l \in Lanes |-> rf[reg][l]]

\* ConstVecOperandU64: the register pair reg (bits 31:0), reg + 1 (63:32).
ReadU64(rf, reg) == [l \in Lanes |-> [hi |-> rf[reg + 1][l], lo |-> rf[reg][l]]]

\* VecOperandU32 vdst(gpuDynInst, reg): the destination's lane words; a lane
\* the instruction does not assign keeps the register's word.
DstU32(rf, reg) == ReadU32(rf, reg)

DstU64(rf, reg) == ReadU64(rf, reg)

\* vdst.write(): commits the operand's lane words to the register file.
WriteU32(rf, reg, vdst) == [rf EXCEPT ![reg] = vdst]

WriteU64(rf, reg, vdst) ==
    [rf EXCEPT ![reg] = [l \in Lanes |-> vdst[l].lo],
               ![reg + 1] = [l \in Lanes |-> vdst[l].hi]]

\* bits(src[lane], 63, 32) and bits(src[lane], 31, 0) of a 64-bit lane value.
bits63_32(d) == d.hi
bits31_0(d) == d.lo

\* (static_cast<uint64_t>(upper) << 32) | lower
Pack64(upper, lower) == [hi |-> upper, lo |-> lower]

\* The lane loop without its execMask test: every lane is assigned.
RECURSIVE LaneLoop_unmasked(_, _, _, _)
LaneLoop_unmasked(lane, exec, res, vdst) ==
    IF lane >= NumVecElemPerVecReg
    THEN vdst
    ELSE LaneLoop_unmasked(lane + 1, exec, res, [vdst EXCEPT ![lane] = res[lane]])

\* The lane loop with every active lane taking its neighbour's result.
RECURSIVE LaneLoop_neighbour(_, _, _, _)
LaneLoop_neighbour(lane, exec, res, vdst) ==
    IF lane >= NumVecElemPerVecReg
    THEN vdst
    ELSE LaneLoop_neighbour(lane + 1, exec, res,
             IF exec[lane]
             THEN [vdst EXCEPT ![lane] = res[(lane + 1) % NumVecElemPerVecReg]]
             ELSE vdst)

\* for (lane = 0; lane < NumVecElemPerVecReg; ++lane)
\*     if (wf->execMask(lane)) vdst[lane] = <the lane's result>;
\* from lane on; res[l] is what the loop body computes for lane l.
RECURSIVE LaneLoop(_, _, _, _)
LaneLoop(lane, exec, res, vdst) ==
    IF lane >= NumVecElemPerVecReg
    THEN vdst
    ELSE LaneLoop(lane + 1, exec, res,
                  IF exec[lane] THEN [vdst EXCEPT ![lane] = res[lane]] ELSE vdst)

\* The number of assignments to vdst[l] that the lane loop makes, from lane
\* on: one for every lane whose execMask test succeeds.
RECURSIVE LaneWrites(_, _, _)
LaneWrites(lane, exec, count) ==
    IF lane >= NumVecElemPerVecReg
    THEN count
    ELSE LaneWrites(lane + 1, exec,
                    IF exec[lane] THEN [count EXCEPT ![lane] = @ + 1] ELSE count)

-----------------------------------------------------------------------------
(* Loop bodies of the instructions whose lane loops are in vop3p.cc        *)

\* V_PK_FMA_F32 with the low half negating S0, S1 and S2 by NEG bits 0, 1
\* and 2.
V_PK_FMA_F32_lane_negPerOperand(opsel, opsel_hi, neg, neg_hi, src0, src1, src2) ==
    LET s0l == IF Bit(opsel, 0) THEN bits63_32(src0) ELSE bits31_0(src0)
        s1l == IF Bit(opsel, 1) THEN bits63_32(src1) ELSE bits31_0(src1)
        s2l == IF Bit(opsel, 2) THEN bits63_32(src2) ELSE bits31_0(src2)
        s0lf == IF Bit(neg, 0) THEN fneg(BitsF32(s0l)) ELSE BitsF32(s0l)
        s1lf == IF Bit(neg, 1) THEN fneg(BitsF32(s1l)) ELSE BitsF32(s1l)
        s2lf == IF Bit(neg, 2) THEN fneg(BitsF32(s2l)) ELSE BitsF32(s2l)
        dword1 == fma(s0lf, s1lf, s2lf)
        s0h == IF Bit(opsel_hi, 0) THEN bits63_32(src0) ELSE bits31_0(src0)
        s1h == IF Bit(opsel_hi, 1) THEN bits63_32(src1) ELSE bits31_0(src1)
        s2h == IF Bit(opsel_hi, 2) THEN bits63_32(src2) ELSE bits31_0(src2)
        s0hf == IF Bit(neg_hi, 0) THEN fneg(BitsF32(s0h)) ELSE BitsF32(s0h)
        s1hf == IF Bit(neg_hi, 0) THEN fneg(BitsF32(s1h)) ELSE BitsF32(s1h)
        s2hf == IF Bit(neg_hi, 0) THEN fneg(BitsF32(s2h)) ELSE BitsF32(s2h)
        dword2 == fma(s0hf, s1hf, s2hf)
    IN  Pack64(F32Bits(dword2), F32Bits(dword1))

\* V_PK_FMA_F32, one active lane.
V_PK_FMA_F32_lane(opsel, opsel_hi, neg, neg_hi, src0, src1, src2) ==
    LET s0l == IF Bit(opsel, 0) THEN bits63_32(src0) ELSE bits31_0(src0)
        s1l == IF Bit(opsel, 1) THEN bits63_32(src1) ELSE bits31_0(src1)
        s2l == IF Bit(opsel, 2) THEN bits63_32(src2) ELSE bits31_0(src2)
        s0lf == IF Bit(neg, 0) THEN fneg(BitsF32(s0l)) ELSE BitsF32(s0l)
        s1lf == IF Bit(neg, 0) THEN fneg(BitsF32(s1l)) ELSE BitsF32(s1l)
        s2lf == IF Bit(neg, 0) THEN fneg(BitsF32(s2l)) ELSE BitsF32(s2l)
        dword1 == fma(s0lf, s1lf, s2lf)
        s0h == IF Bit(opsel_hi, 0) THEN bits63_32(src0) ELSE bits31_0(src0)
        s1h == IF Bit(opsel_hi, 1) THEN bits63_32(src1) ELSE bits31_0(src1)
        s2h == IF Bit(opsel_hi, 2) THEN bits63_32(src2) ELSE bits31_0(src2)
        s0hf == IF Bit(neg_hi, 0) THEN fneg(BitsF32(s0h)) ELSE BitsF32(s0h)
        s1hf == IF Bit(neg_hi, 0) THEN fneg(BitsF32(s1h)) ELSE BitsF32(s1h)
        s2hf == IF Bit(neg_hi, 0) THEN fneg(BitsF32(s2h)) ELSE BitsF32(s2h)
        dword2 == fma(s0hf, s1hf, s2hf)
    IN  Pack64(F32Bits(dword2), F32Bits(dword1))

\* V_PK_MUL_F32, one active lane.
V_PK_MUL_F32_lane(opsel, opsel_hi, neg, neg_hi, src0, src1) ==
    LET lower_dword == IF Bit(opsel, 0) THEN bits63_32(src0) ELSE bits31_0(src0)
        upper_dword == IF Bit(opsel, 1) THEN bits63_32(src1) ELSE bits31_0(src1)
        ldwordf == IF Bit(neg, 0) THEN fneg(BitsF32(lower_dword))
                                  ELSE BitsF32(lower_dword)
        udwordf == IF Bit(neg, 1) THEN fneg(BitsF32(upper_dword))
                                  ELSE BitsF32(upper_dword)
        dword1 == fmul(ldwordf, udwordf)
        lower_hi == IF Bit(opsel_hi, 0) THEN bits63_32(src0) ELSE bits31_0(src0)
        upper_hi == IF Bit(opsel_hi, 1) THEN bits63_32(src1) ELSE bits31_0(src1)
        ldwordf_hi == IF Bit(neg_hi, 0) THEN fneg(BitsF32(lower_hi))
                                        ELSE BitsF32(lower_hi)
        udwordf_hi == IF Bit(neg_hi, 1) THEN fneg(BitsF32(upper_hi))
                                        ELSE BitsF32(upper_hi)
        dword2 == fmul(ldwordf_hi, udwordf_hi)
    IN  Pack64(F32Bits(dword2), F32Bits(dword1))

\* V_PK_ADD_F32, one active lane.
V_PK_ADD_F32_lane(opsel, opsel_hi, neg, neg_hi, src0, src1) ==
    LET lower_dword == IF Bit(opsel, 0) THEN bits63_32(src0) ELSE bits31_0(src0)
        upper_dword == IF Bit(opsel, 1) THEN bits63_32(src1) ELSE bits31_0(src1)
        ldwordf == IF Bit(neg, 0) THEN fneg(BitsF32(lower_dword))
                                  ELSE BitsF32(lower_dword)
        udwordf == IF Bit(neg, 1) THEN fneg(BitsF32(upper_dword))
                                  ELSE BitsF32(upper_dword)
        dword1 == fadd(ldwordf, udwordf)
        lower_hi == IF Bit(opsel_hi, 0) THEN bits63_32(src0) ELSE bits31_0(src0)
        upper_hi == IF Bit(opsel_hi, 1) THEN bits63_32(src1) ELSE bits31_0(src1)
        ldwordf_hi == IF Bit(neg_hi, 0) THEN fneg(BitsF32(lower_hi))
                                        ELSE BitsF32(lower_hi)
        udwordf_hi == IF Bit(neg_hi, 1) THEN fneg(BitsF32(upper_hi))
                                        ELSE BitsF32(upper_hi)
        dword2 == fadd(ldwordf_hi, udwordf_hi)
    IN  Pack64(F32Bits(dword2), F32Bits(dword1))

\* V_PK_MOV_B32 with the upper half taking the other dword of src1.
V_PK_MOV_B32_lane_upperSwapped(opsel, src0, src1) ==
    LET lower_dword == IF Bit(opsel, 0) THEN bits63_32(src0) ELSE bits31_0(src0)
        upper_dword == IF Bit(opsel, 1) THEN bits31_0(src1) ELSE bits63_32(src1)
    IN  Pack64(upper_dword, lower_dword)

\* V_PK_MOV_B32 with the upper half selected by OPSEL[2] instead of OPSEL[1].
V_PK_MOV_B32_lane_opsel2(opsel, src0, src1) ==
    LET lower_dword == IF Bit(opsel, 0) THEN bits63_32(src0) ELSE bits31_0(src0)
        upper_dword == IF Bit(opsel, 2) THEN bits63_32(src1) ELSE bits31_0(src1)
    IN  Pack64(upper_dword, lower_dword)

\* V_PK_MOV_B32, one active lane.
V_PK_MOV_B32_lane(opsel, src0, src1) ==
    LET lower_dword == IF Bit(opsel, 0) THEN bits63_32(src0) ELSE bits31_0(src0)
        upper_dword == IF Bit(opsel, 1) THEN bits63_32(src1) ELSE bits31_0(src1)
    IN  Pack64(upper_dword, lower_dword)

\* V_PK_ADD_F32 without its DPP check.
V_PK_ADD_F32_panic_sdwaOnly(e) == e.SDWA

\* panic_if(isSDWAInst(), ...); panic_if(isDPPInst(), ...) of V_PK_ADD_F32.
V_PK_ADD_F32_panic(e) == e.SDWA \/ e.DPP

\* The warning of V_PK_MOV_B32 without its NEG_HI test.
V_PK_MOV_B32_warn_negOnly(e) == e.NEG # 0

\* warn_if(instData.NEG_HI || extData.NEG, ...) of V_PK_MOV_B32.
V_PK_MOV_B32_warn(e) == e.NEG_HI # 0 \/ e.NEG # 0

-----------------------------------------------------------------------------
(* Instruction encodings the model issues                                  *)

\* (SRC0, SRC1, SRC2, VDST) of the 64-bit instructions: register pairs, the
\* destination apart from the sources or on top of one.
Operands64 == { <<0, 2, 4, 6>>, <<2, 0, 0, 2>>, <<4, 4, 2, 0>> }

\* (OPSEL, OPSEL_HI, OPSEL_HI2, NEG, NEG_HI): every operand selection with
\* no negation, and every negation under two operand selections.
FloatMods ==
    { <<os, oh, oh2, 0, 0>> : os \in 0 .. 7, oh \in 0 .. 3, oh2 \in 0 .. 1 }
    \cup { <<s[1], s[2], s[3], n, nh>> :
             s \in { <<0, 3, 1>>, <<5, 2, 0>> }, n \in 0 .. 7, nh \in 0 .. 7 }

\* V_PK_MOV_B32: every OPSEL and NEG, with NEG_HI zero, NEG or 7 - NEG.
MovMods ==
    { m \in { <<os, 0, 0, n, nh>> : os \in 0 .. 7, n \in 0 .. 7, nh \in 0 .. 7 } :
        m[5] \in { 0, m[4], 7 - m[4] } }

\* isSDWAInst(), isDPPInst()
ExtFlags == BOOLEAN \X BOOLEAN

Encoding(r, m, x) ==
    [SRC0 |-> r[1], SRC1 |-> r[2], SRC2 |-> r[3], VDST |-> r[4],
     OPSEL |-> m[1], OPSEL_HI |-> m[2], OPSEL_HI2 |-> m[3],
     NEG |-> m[4], NEG_HI |-> m[5], CLMP |-> FALSE,
     SDWA |-> x[1], DPP |-> x[2]]

FloatEncodings == { Encoding(r, m, x) : r \in Operands64, m \in FloatMods, x \in ExtFlags }

MovEncodings == { Encoding(r, m, x) : r \in Operands64, m \in MovMods, x \in ExtFlags }

\* V_ACCVGPR_READ / V_ACCVGPR_WRITE: SRC0 and VDST.
AccEncodings ==
    { Encoding(<<s, 0, 0, d>>, <<0, 0, 0, 0, 0>>, <<FALSE, FALSE>>) :
        s \in {0, 1, 2}, d \in {1, 2, 3} }

\* The integer dot products: 32-bit sources and destination, CLMP.
DotEncodings ==
    { [Encoding(r, <<0, 0, 0, 0, 0>>, <<FALSE, FALSE>>) EXCEPT !.CLMP = c] :
        r \in { <<0, 1, 2, 3>>, <<5, 4, 5, 4>>, <<7, 6, 3, 0>> }, c \in BOOLEAN }

-----------------------------------------------------------------------------
(* Instructions: one action per execute                                    *)

\* What every execute leaves of the state once it has run.
Executed(name, e) ==
    /\ opcode' = name
    /\ enc' = e
    /\ pre' = vrf
    /\ UNCHANGED <<execMask, accumOffset, fn, arg, out>>

Inst_VOP3P__V_ACCVGPR_READ_execute ==
    /\ pc = "idle"
    /\ \E e \in AccEncodings :
        /\ LET src == ReadU32(vrf, e.SRC0 + accumOffset)
               vdst == LaneLoop(0, execMask, src, DstU32(vrf, e.VDST))
           IN  vrf' = WriteU32(vrf, e.VDST, vdst)
        /\ pc' = "done"
        /\ warned' = FALSE
        /\ Executed("v_accvgpr_read", e)

Inst_VOP3P__V_ACCVGPR_WRITE_execute ==
    /\ pc = "idle"
    /\ \E e \in AccEncodings :
        /\ LET src == ReadU32(vrf, e.SRC0)
               vdst == LaneLoop(0, execMask, src, DstU32(vrf, e.VDST + accumOffset))
           IN  vrf' = WriteU32(vrf, e.VDST + accumOffset, vdst)
        /\ pc' = "done"
        /\ warned' = FALSE
        /\ Executed("v_accvgpr_write", e)

Inst_VOP3P__V_PK_FMA_F32_execute ==
    /\ pc = "idle"
    /\ \E e \in FloatEncodings :
        /\ LET src0 == ReadU64(vrf, e.SRC0)
               src1 == ReadU64(vrf, e.SRC1)
               src2 == ReadU64(vrf, e.SRC2)
               opsel == e.OPSEL
               opsel_hi == e.OPSEL_HI + 4 * e.OPSEL_HI2
               res == [l \in Lanes |->
                         V_PK_FMA_F32_lane(opsel, opsel_hi, e.NEG, e.NEG_HI,
                                           src0[l], src1[l], src2[l])]
               vdst == LaneLoop(0, execMask, res, DstU64(vrf, e.VDST))
           IN  vrf' = WriteU64(vrf, e.VDST, vdst)
        /\ pc' = "done"
        /\ warned' = FALSE
        /\ Executed("v_pk_fma_f32", e)

Inst_VOP3P__V_PK_MUL_F32_execute ==
    /\ pc = "idle"
    /\ \E e \in FloatEncodings :
        /\ LET src0 == ReadU64(vrf, e.SRC0)
               src1 == ReadU64(vrf, e.SRC1)
               res == [l \in Lanes |->
                         V_PK_MUL_F32_lane(e.OPSEL, e.OPSEL_HI, e.NEG, e.NEG_HI,
                                           src0[l], src1[l])]
               vdst == LaneLoop(0, execMask, res, DstU64(vrf, e.VDST))
           IN  vrf' = WriteU64(vrf, e.VDST, vdst)
        /\ pc' = "done"
        /\ warned' = FALSE
        /\ Executed("v_pk_mul_f32", e)

Inst_VOP3P__V_PK_ADD_F32_execute ==
    /\ pc = "idle"
    /\ \E e \in FloatEncodings :
        /\ LET src0 == ReadU64(vrf, e.SRC0)
               src1 == ReadU64(vrf, e.SRC1)
               res == [l \in Lanes |->
                         V_PK_ADD_F32_lane(e.OPSEL, e.OPSEL_HI, e.NEG, e.NEG_HI,
                                           src0[l], src1[l])]
               vdst == LaneLoop(0, execMask, res, DstU64(vrf, e.VDST))
           IN  IF V_PK_ADD_F32_panic(e)
               THEN pc' = "panic" /\ vrf' = vrf
               ELSE pc' = "done" /\ vrf' = WriteU64(vrf, e.VDST, vdst)
        /\ warned' = FALSE
        /\ Executed("v_pk_add_f32", e)

Inst_VOP3P__V_PK_MOV_B32_execute ==
    /\ pc = "idle"
    /\ \E e \in MovEncodings :
        /\ LET src0 == ReadU64(vrf, e.SRC0)
               src1 == ReadU64(vrf, e.SRC1)
               res == [l \in Lanes |-> V_PK_MOV_B32_lane(e.OPSEL, src0[l], src1[l])]
               vdst == LaneLoop(0, execMask, res, DstU64(vrf, e.VDST))
           IN  vrf' = WriteU64(vrf, e.VDST, vdst)
        /\ pc' = "done"
        /\ warned' = V_PK_MOV_B32_warn(e)
        /\ Executed("v_pk_mov_b32", e)

\* dotHelper(gpuDynInst, opImpl): reads the three 32-bit sources, applies
\* opImpl with the clamp flag in every active lane and writes the
\* destination back; res[l] is opImpl of lane l's source words.
dotHelper(rf, exec, e, res) ==
    LET dst == DstU32(rf, e.VDST)
    IN  WriteU32(rf, e.VDST, [l \in Lanes |-> IF exec[l] THEN res[l] ELSE dst[l]])

Inst_VOP3P__V_DOT2_I32_I16_execute ==
    /\ pc = "idle"
    /\ \E e \in DotEncodings :
        /\ vrf' = dotHelper(vrf, execMask, e,
                     [l \in Lanes |-> V_DOT2_I32_I16(vrf[e.SRC0][l], vrf[e.SRC1][l],
                                                     vrf[e.SRC2][l], e.CLMP)])
        /\ pc' = "done"
        /\ warned' = FALSE
        /\ Executed("v_dot2_i32_i16", e)

Inst_VOP3P__V_DOT2_U32_U16_execute ==
    /\ pc = "idle"
    /\ \E e \in DotEncodings :
        /\ vrf' = dotHelper(vrf, execMask, e,
                     [l \in Lanes |-> V_DOT2_U32_U16(vrf[e.SRC0][l], vrf[e.SRC1][l],
                                                     vrf[e.SRC2][l], e.CLMP)])
        /\ pc' = "done"
        /\ warned' = FALSE
        /\ Executed("v_dot2_u32_u16", e)

Inst_VOP3P__V_DOT4_I32_I8_execute ==
    /\ pc = "idle"
    /\ \E e \in DotEncodings :
        /\ vrf' = dotHelper(vrf, execMask, e,
                     [l \in Lanes |-> V_DOT4_I32_I8(vrf[e.SRC0][l], vrf[e.SRC1][l],
                                                    vrf[e.SRC2][l], e.CLMP)])
        /\ pc' = "done"
        /\ warned' = FALSE
        /\ Executed("v_dot4_i32_i8", e)

Inst_VOP3P__V_DOT4_U32_U8_execute ==
    /\ pc = "idle"
    /\ \E e \in DotEncodings :
        /\ vrf' = dotHelper(vrf, execMask, e,
                     [l \in Lanes |-> V_DOT4_U32_U8(vrf[e.SRC0][l], vrf[e.SRC1][l],
                                                    vrf[e.SRC2][l], e.CLMP)])
        /\ pc' = "done"
        /\ warned' = FALSE
        /\ Executed("v_dot4_u32_u8", e)

Inst_VOP3P__V_DOT8_I32_I4_execute ==
    /\ pc = "idle"
    /\ \E e \in DotEncodings :
        /\ vrf' = dotHelper(vrf, execMask, e,
                     [l \in Lanes |-> V_DOT8_I32_I4(vrf[e.SRC0][l], vrf[e.SRC1][l],
                                                    vrf[e.SRC2][l], e.CLMP)])
        /\ pc' = "done"
        /\ warned' = FALSE
        /\ Executed("v_dot8_i32_i4", e)

Inst_VOP3P__V_DOT8_U32_U4_execute ==
    /\ pc = "idle"
    /\ \E e \in DotEncodings :
        /\ vrf' = dotHelper(vrf, execMask, e,
                     [l \in Lanes |-> V_DOT8_U32_U4(vrf[e.SRC0][l], vrf[e.SRC1][l],
                                                    vrf[e.SRC2][l], e.CLMP)])
        /\ pc' = "done"
        /\ warned' = FALSE
        /\ Executed("v_dot8_u32_u4", e)

Next ==
    \/ Inst_VOP3P__V_DOT2_I32_I16_execute
    \/ Inst_VOP3P__V_DOT2_U32_U16_execute
    \/ Inst_VOP3P__V_DOT4_I32_I8_execute
    \/ Inst_VOP3P__V_DOT4_U32_U8_execute
    \/ Inst_VOP3P__V_DOT8_I32_I4_execute
    \/ Inst_VOP3P__V_DOT8_U32_U4_execute
    \/ Inst_VOP3P__V_ACCVGPR_READ_execute
    \/ Inst_VOP3P__V_ACCVGPR_WRITE_execute
    \/ Inst_VOP3P__V_PK_FMA_F32_execute
    \/ Inst_VOP3P__V_PK_MUL_F32_execute
    \/ Inst_VOP3P__V_PK_ADD_F32_execute
    \/ Inst_VOP3P__V_PK_MOV_B32_execute

Spec == Init /\ [][Next]_vars

-----------------------------------------------------------------------------
(* The helper functions and element operations, applied to chosen inputs   *)

\* int32_t / uint32_t arguments of the clamp helpers: the ends of the
\* range and both sides of every saturation bound.
ClampVals ==
    { MinI32, MinI32 + 1, -74565, -65537, -65536, -65535, -32769, -32768,
      -32767, -129, -128, -127, -9, -8, -7, -1, 0, 1, 7, 8, 15, 16, 127,
      128, 255, 256, 32767, 32768, 65535, 65536, 74565, MaxI32 - 1, MaxI32 }

\* Template arguments of dotClampI / dotClampU that the file instantiates.
ClampWidths == {4, 8, 16}

\* int16_t elements of the packed 16-bit instructions.
I16Vals == { -32768, -32767, -1000, -1, 0, 1, 1000, 32000, 32767 }

\* uint16_t elements of the packed 16-bit instructions.
U16Vals == { 0, 1, 2, 1000, 32767, 32768, 65534, 65535 }

\* Packed 32-bit sources of the dot products.
DotWords ==
    { 0, 1, -1, 65535,
      Word(-5, 300), Word(40, 200),          \* elements {300, -5}, {200, 40}
      Word(32768, 32767), Word(256, 256),
      Word(32639, 33023),                    \* bytes 7F 7F 80 FF
      Word(4660, 22136), Word(34661, 2047) }

\* Third source of the dot products.
DotAddends == { MinI32, -65536, -1, 0, 1, 200, MaxI32 }

\* One evaluation: fn applied to a, giving r.
Eval(name, a, r) ==
    /\ pc' = "done"
    /\ fn' = name
    /\ arg' = a
    /\ out' = r
    /\ UNCHANGED laneVars

Arg1(v, N, c) == [S0 |-> v, S1 |-> 0, S2 |-> 0, N |-> N, clamp |-> c]
Arg3(a, b, c3, N, c) == [S0 |-> a, S1 |-> b, S2 |-> c3, N |-> N, clamp |-> c]

Call_dotClampI ==
    /\ pc = "idle"
    /\ \E N \in ClampWidths, v \in ClampVals, c \in BOOLEAN :
        Eval("dotClampI", Arg1(v, N, c), dotClampI(N, v, c))

Call_dotClampU ==
    /\ pc = "idle"
    /\ \E N \in ClampWidths, v \in ClampVals, c \in BOOLEAN :
        Eval("dotClampU", Arg1(v, N, c), dotClampU(N, v, c))

Call_clampI16 ==
    /\ pc = "idle"
    /\ \E v \in ClampVals, c \in BOOLEAN :
        Eval("clampI16", Arg1(v, 16, c), clampI16(v, c))

Call_clampU16 ==
    /\ pc = "idle"
    /\ \E v \in ClampVals, c \in BOOLEAN :
        Eval("clampU16", Arg1(v, 16, c), clampU16(v, c))

Op_V_PK_ADD_I16 ==
    /\ pc = "idle"
    /\ \E S0 \in I16Vals, S1 \in I16Vals, c \in BOOLEAN :
        Eval("v_pk_add_i16", Arg3(S0, S1, 0, 16, c), V_PK_ADD_I16(S0, S1, c))

Op_V_PK_SUB_U16 ==
    /\ pc = "idle"
    /\ \E S0 \in U16Vals, S1 \in U16Vals, c \in BOOLEAN :
        Eval("v_pk_sub_u16", Arg3(S0, S1, 0, 16, c), V_PK_SUB_U16(S0, S1, c))

Op_V_DOT2_I32_I16 ==
    /\ pc = "idle"
    /\ \E S0r \in DotWords, S1r \in DotWords, S2r \in DotAddends, c \in BOOLEAN :
        Eval("v_dot2_i32_i16", Arg3(S0r, S1r, S2r, 16, c),
             V_DOT2_I32_I16(S0r, S1r, S2r, c))

Op_V_DOT2_U32_U16 ==
    /\ pc = "idle"
    /\ \E S0r \in DotWords, S1r \in DotWords, S2 \in DotAddends, c \in BOOLEAN :
        Eval("v_dot2_u32_u16", Arg3(S0r, S1r, S2, 16, c),
             V_DOT2_U32_U16(S0r, S1r, S2, c))

Op_V_DOT4_I32_I8 ==
    /\ pc = "idle"
    /\ \E S0r \in DotWords, S1r \in DotWords, S2r \in DotAddends, c \in BOOLEAN :
        Eval("v_dot4_i32_i8", Arg3(S0r, S1r, S2r, 8, c),
             V_DOT4_I32_I8(S0r, S1r, S2r, c))

Op_V_DOT4_U32_U8 ==
    /\ pc = "idle"
    /\ \E S0r \in DotWords, S1r \in DotWords, S2 \in DotAddends, c \in BOOLEAN :
        Eval("v_dot4_u32_u8", Arg3(S0r, S1r, S2, 8, c),
             V_DOT4_U32_U8(S0r, S1r, S2, c))

Op_V_DOT8_I32_I4 ==
    /\ pc = "idle"
    /\ \E S0r \in DotWords, S1r \in DotWords, S2r \in DotAddends, c \in BOOLEAN :
        Eval("v_dot8_i32_i4", Arg3(S0r, S1r, S2r, 4, c),
             V_DOT8_I32_I4(S0r, S1r, S2r, c))

Op_V_DOT8_U32_U4 ==
    /\ pc = "idle"
    /\ \E S0r \in DotWords, S1r \in DotWords, S2 \in DotAddends, c \in BOOLEAN :
        Eval("v_dot8_u32_u4", Arg3(S0r, S1r, S2, 4, c),
             V_DOT8_U32_U4(S0r, S1r, S2, c))

InitElem ==
    /\ Init
    /\ \A l \in Lanes : execMask[l]
    /\ accumOffset = 4

NextElem ==
    \/ Call_dotClampI
    \/ Call_dotClampU
    \/ Call_clampI16
    \/ Call_clampU16
    \/ Op_V_PK_ADD_I16
    \/ Op_V_PK_SUB_U16
    \/ Op_V_DOT2_I32_I16
    \/ Op_V_DOT2_U32_U16
    \/ Op_V_DOT4_I32_I8
    \/ Op_V_DOT4_U32_U8
    \/ Op_V_DOT8_I32_I4
    \/ Op_V_DOT8_U32_U4

SpecElem == InitElem /\ [][NextElem]_vars

-----------------------------------------------------------------------------
(* Properties of the lane-level instructions (specification Spec)          *)

Executing == pc # "idle"

\* The 64-bit value of register pair reg in lane l, before and after.
PreU64(reg, l) == [hi |-> pre[reg + 1][l], lo |-> pre[reg][l]]
NowU64(reg, l) == [hi |-> vrf[reg + 1][l], lo |-> vrf[reg][l]]

Packed32 == { "v_pk_fma_f32", "v_pk_mul_f32", "v_pk_add_f32", "v_pk_mov_b32" }

\* The registers of the executed instruction's destination operand.
DstRegs ==
    CASE opcode = "v_accvgpr_write" -> { enc.VDST + accumOffset }
      [] opcode \in Packed32 -> { enc.VDST, enc.VDST + 1 }
      [] OTHER -> { enc.VDST }

\* C1: after execute, every lane whose exec-mask bit was clear holds in the
\* destination register (and in every other register) the word it held
\* before the call, whatever the sources and modifiers.
C1_InactiveLanesUnchanged ==
    Executing =>
        \A l \in Lanes : ~execMask[l] =>
            \A r \in Vgprs : vrf[r][l] = pre[r][l]

\* C1 witness: an instruction ran with one lane inactive and wrote a new
\* destination word into an active lane.
C1_Witness ==
    /\ pc = "done"
    /\ \E l \in Lanes : ~execMask[l]
    /\ \E l \in Lanes, r \in DstRegs : execMask[l] /\ vrf[r][l] # pre[r][l]

\* C2: V_PK_ADD_F32 issued as an SDWA or DPP instruction ends in the fatal
\* error state having written no lane of any register, and ends normally
\* otherwise; V_PK_FMA_F32, V_PK_MUL_F32 and V_PK_MOV_B32 issued as SDWA or
\* DPP instructions make no such check and complete.
C2_AddRejectsSdwaDpp ==
    Executing =>
        /\ opcode = "v_pk_add_f32" =>
              IF enc.SDWA \/ enc.DPP
              THEN pc = "panic" /\ vrf = pre
              ELSE pc = "done"
        /\ opcode \in Packed32 \ { "v_pk_add_f32" } => pc = "done"

\* C2 witness: V_PK_ADD_F32 as a DPP instruction with an active lane has
\* stopped in the error state.
C2_Witness ==
    /\ opcode = "v_pk_add_f32"
    /\ enc.DPP /\ ~enc.SDWA
    /\ pc = "panic"
    /\ \E l \in Lanes : execMask[l]

\* C9 as stated: V_PK_MOV_B32 with opsel = 0 gives, in every active lane,
\* D = (S1.upper << 32) | S0.lower.
C9_Original ==
    (pc = "done" /\ opcode = "v_pk_mov_b32" /\ enc.OPSEL = 0) =>
        \A l \in Lanes : execMask[l] =>
            NowU64(enc.VDST, l) =
                [hi |-> PreU64(enc.SRC1, l).hi, lo |-> PreU64(enc.SRC0, l).lo]

\* C9 amended: V_PK_MOV_B32 with opsel = 0 gives, in every active lane,
\* D = (S1.lower << 32) | S0.lower.
C9_MovOpsel0 ==
    (pc = "done" /\ opcode = "v_pk_mov_b32" /\ enc.OPSEL = 0) =>
        \A l \in Lanes : execMask[l] =>
            NowU64(enc.VDST, l) =
                [hi |-> PreU64(enc.SRC1, l).lo, lo |-> PreU64(enc.SRC0, l).lo]

\* C9 witness: V_PK_MOV_B32 ran with opsel = 0 on an active lane whose S1
\* has different upper and lower dwords.
C9_Witness ==
    /\ pc = "done" /\ opcode = "v_pk_mov_b32" /\ enc.OPSEL = 0
    /\ \E l \in Lanes :
          /\ execMask[l]
          /\ PreU64(enc.SRC1, l).hi # PreU64(enc.SRC1, l).lo
          /\ NowU64(enc.VDST, l).hi = PreU64(enc.SRC1, l).lo

\* C10: V_PK_MOV_B32, every OPSEL: in every active lane the low half of D
\* is S0.upper if OPSEL[0] is set and S0.lower otherwise, the high half is
\* S1.upper if OPSEL[1] is set and S1.lower otherwise; OPSEL[2] and the
\* other source have no part in a half.
C10_MovHalfSelect ==
    (pc = "done" /\ opcode = "v_pk_mov_b32") =>
        \A l \in Lanes : execMask[l] =>
            LET S0 == PreU64(enc.SRC0, l)
                S1 == PreU64(enc.SRC1, l)
                D  == NowU64(enc.VDST, l)
            IN  /\ D.lo = IF enc.OPSEL \in {1, 3, 5, 7} THEN S0.hi ELSE S0.lo
                /\ D.hi = IF enc.OPSEL \in {2, 3, 6, 7} THEN S1.hi ELSE S1.lo

\* C10 witness: V_PK_MOV_B32 ran with opsel = 3 on an active lane whose
\* sources have different dwords, and D holds both upper dwords.
C10_Witness ==
    /\ pc = "done" /\ opcode = "v_pk_mov_b32" /\ enc.OPSEL = 3
    /\ \E l \in Lanes :
          LET S0 == PreU64(enc.SRC0, l)
              S1 == PreU64(enc.SRC1, l)
          IN  /\ execMask[l]
              /\ S0.hi # S0.lo /\ S1.hi # S1.lo /\ S0.hi # S1.hi
              /\ NowU64(enc.VDST, l) = [hi |-> S1.hi, lo |-> S0.hi]

\* The dword of the 64-bit source s that bit i of the selector sel picks.
Sel(sel, i, s) == IF Bit(sel, i) THEN s.hi ELSE s.lo

\* The float in word w, its sign flipped if b.
NegIf(b, w) == IF b THEN fneg(BitsF32(w)) ELSE BitsF32(w)

\* opsel_hi of V_PK_FMA_F32: OPSEL_HI with OPSEL_HI2 as bit 2.
OpselHi == enc.OPSEL_HI + 4 * enc.OPSEL_HI2

\* C11: V_PK_FMA_F32, high half: in every active lane the upper dword of D
\* is fma of the selected S0, S1 and S2 with the sign of S0 flipped iff
\* NEG_HI bit 0 is set, of S1 iff bit 1 is set and of S2 iff bit 2 is set.
C11_FmaHighNegPerOperand ==
    (pc = "done" /\ opcode = "v_pk_fma_f32") =>
        \A l \in Lanes : execMask[l] =>
            NowU64(enc.VDST, l).hi =
                F32Bits(fma(
                    NegIf(Bit(enc.NEG_HI, 0), Sel(OpselHi, 0, PreU64(enc.SRC0, l))),
                    NegIf(Bit(enc.NEG_HI, 1), Sel(OpselHi, 1, PreU64(enc.SRC1, l))),
                    NegIf(Bit(enc.NEG_HI, 2), Sel(OpselHi, 2, PreU64(enc.SRC2, l)))))

\* The lower dword of D that results when the selected S0, S1 and S2 of the
\* low half are negated iff n0, n1 and n2.
LowHalf(l, n0, n1, n2) ==
    LET a == NegIf(n0, Sel(enc.OPSEL, 0, PreU64(enc.SRC0, l)))
        b == NegIf(n1, Sel(enc.OPSEL, 1, PreU64(enc.SRC1, l)))
        c == NegIf(n2, Sel(enc.OPSEL, 2, PreU64(enc.SRC2, l)))
    IN  CASE opcode = "v_pk_fma_f32" -> F32Bits(fma(a, b, c))
          [] opcode = "v_pk_mul_f32" -> F32Bits(fmul(a, b))
          [] opcode = "v_pk_add_f32" -> F32Bits(fadd(a, b))

PackedArith == { "v_pk_fma_f32", "v_pk_mul_f32", "v_pk_add_f32" }

\* C12 as stated: in V_PK_ADD_F32, V_PK_MUL_F32 and V_PK_FMA_F32 the low
\* half negates every selected operand exactly when NEG bit 0 is set; NEG
\* bits 1 and 2 have no effect on the lower dword of D.
C12_Original ==
    (pc = "done" /\ opcode \in PackedArith) =>
        \A l \in Lanes : execMask[l] =>
            NowU64(enc.VDST, l).lo =
                LowHalf(l, Bit(enc.NEG, 0), Bit(enc.NEG, 0), Bit(enc.NEG, 0))

\* C12 amended: in V_PK_FMA_F32 the low half negates all three selected
\* operands exactly when NEG bit 0 is set (bits 1 and 2 have no effect);
\* in V_PK_ADD_F32 and V_PK_MUL_F32 it negates S0 iff NEG bit 0 is set and
\* S1 iff NEG bit 1 is set (bit 2 has no effect).
C12_LowHalfNeg ==
    (pc = "done" /\ opcode \in PackedArith) =>
        \A l \in Lanes : execMask[l] =>
            NowU64(enc.VDST, l).lo =
                IF opcode = "v_pk_fma_f32"
                THEN LowHalf(l, Bit(enc.NEG, 0), Bit(enc.NEG, 0), Bit(enc.NEG, 0))
                ELSE LowHalf(l, Bit(enc.NEG, 0), Bit(enc.NEG, 1), FALSE)

\* C12 witness: V_PK_FMA_F32 ran with NEG = 1 on an active lane where
\* negating all three operands and negating S0 alone give different
\* results, and the lower dword of D is the one with all three negated.
C12_Witness ==
    /\ pc = "done" /\ opcode = "v_pk_fma_f32" /\ enc.NEG = 1
    /\ \E l \in Lanes :
          /\ execMask[l]
          /\ LowHalf(l, TRUE, TRUE, TRUE) # LowHalf(l, TRUE, FALSE, FALSE)
          /\ NowU64(enc.VDST, l).lo = LowHalf(l, TRUE, TRUE, TRUE)

\* The lane loop's body applied to the lanes in the order of the sequence
\* order, from its i-th entry on; res[l + 1] is the body's result for lane l.
RECURSIVE LaneLoopIn(_, _, _, _, _)
LaneLoopIn(order, i, exec, res, vdst) ==
    IF i > Len(order)
    THEN vdst
    ELSE LaneLoopIn(order, i + 1, exec, res,
             IF exec[order[i]] THEN [vdst EXCEPT ![order[i]] = res[order[i] + 1]]
                               ELSE vdst)

\* The sequence f[0], ..., f[n - 1].
RECURSIVE Tabulate(_, _)
Tabulate(f, n) == IF n = 0 THEN <<>> ELSE Append(Tabulate(f, n - 1), f[n - 1])

\* What the executed instruction computes for each lane of register file rf.
LaneResults(rf) ==
    LET s0 == ReadU64(rf, enc.SRC0)
        s1 == ReadU64(rf, enc.SRC1)
        s2 == ReadU64(rf, enc.SRC2)
    IN  CASE opcode = "v_accvgpr_read" -> ReadU32(rf, enc.SRC0 + accumOffset)
          [] opcode = "v_accvgpr_write" -> ReadU32(rf, enc.SRC0)
          [] opcode = "v_pk_fma_f32" ->
               [l \in Lanes |-> V_PK_FMA_F32_lane(enc.OPSEL, OpselHi, enc.NEG,
                                                  enc.NEG_HI, s0[l], s1[l], s2[l])]
          [] opcode = "v_pk_mul_f32" ->
               [l \in Lanes |-> V_PK_MUL_F32_lane(enc.OPSEL, enc.OPSEL_HI, enc.NEG,
                                                  enc.NEG_HI, s0[l], s1[l])]
          [] opcode = "v_pk_add_f32" ->
               [l \in Lanes |-> V_PK_ADD_F32_lane(enc.OPSEL, enc.OPSEL_HI, enc.NEG,
                                                  enc.NEG_HI, s0[l], s1[l])]
          [] opcode = "v_pk_mov_b32" ->
               [l \in Lanes |-> V_PK_MOV_B32_lane(enc.OPSEL, s0[l], s1[l])]
          [] opcode = "v_dot2_i32_i16" ->
               [l \in Lanes |-> V_DOT2_I32_I16(rf[enc.SRC0][l], rf[enc.SRC1][l],
                                               rf[enc.SRC2][l], enc.CLMP)]
          [] opcode = "v_dot2_u32_u16" ->
               [l \in Lanes |-> V_DOT2_U32_U16(rf[enc.SRC0][l], rf[enc.SRC1][l],
                                               rf[enc.SRC2][l], enc.CLMP)]
          [] opcode = "v_dot4_i32_i8" ->
               [l \in Lanes |-> V_DOT4_I32_I8(rf[enc.SRC0][l], rf[enc.SRC1][l],
                                              rf[enc.SRC2][l], enc.CLMP)]
          [] opcode = "v_dot4_u32_u8" ->
               [l \in Lanes |-> V_DOT4_U32_U8(rf[enc.SRC0][l], rf[enc.SRC1][l],
                                              rf[enc.SRC2][l], enc.CLMP)]
          [] opcode = "v_dot8_i32_i4" ->
               [l \in Lanes |-> V_DOT8_I32_I4(rf[enc.SRC0][l], rf[enc.SRC1][l],
                                              rf[enc.SRC2][l], enc.CLMP)]
          [] opcode = "v_dot8_u32_u4" ->
               [l \in Lanes |-> V_DOT8_U32_U4(rf[enc.SRC0][l], rf[enc.SRC1][l],
                                              rf[enc.SRC2][l], enc.CLMP)]

\* The instructions whose lane loop is in vop3p.cc.
LoopOpcodes == Packed32 \cup { "v_accvgpr_read", "v_accvgpr_write" }

\* The destination operand of the executed instruction on register file
\* rf, and the register file after its write of vdst.
DstOf(rf) ==
    IF opcode \in Packed32 THEN DstU64(rf, enc.VDST)
    ELSE IF opcode = "v_accvgpr_write" THEN DstU32(rf, enc.VDST + accumOffset)
    ELSE DstU32(rf, enc.VDST)

WriteOf(rf, vdst) ==
    IF opcode \in Packed32 THEN WriteU64(rf, enc.VDST, vdst)
    ELSE IF opcode = "v_accvgpr_write" THEN WriteU32(rf, enc.VDST + accumOffset, vdst)
    ELSE WriteU32(rf, enc.VDST, vdst)

\* The register file that the executed instruction leaves of register file
\* rf under exec mask exec when its loop visits the lanes in order and
\* res[l + 1] is what its body computes for lane l.
Commit(order, rf, exec, res) ==
    IF opcode \in LoopOpcodes
    THEN WriteOf(rf, LaneLoopIn(order, 1, exec, res, DstOf(rf)))
    ELSE dotHelper(rf, exec, enc, [l \in Lanes |-> res[l + 1]])

\* The executed instruction run on register file rf under exec mask exec.
RunWith(order, rf, exec) ==
    Commit(order, rf, exec,
           [i \in 1 .. NumVecElemPerVecReg |-> LaneResults(rf)[i - 1]])

\* Every order of the lanes, and the order 0 .. NumVecElemPerVecReg - 1.
LaneOrders ==
    { o \in [1 .. NumVecElemPerVecReg -> Lanes] :
        \A i, j \in 1 .. NumVecElemPerVecReg : o[i] = o[j] => i = j }

LaneOrder0 == [i \in 1 .. NumVecElemPerVecReg |-> i - 1]

\* The exec mask with every lane but l flipped, and the register file
\* before the call with every lane but l holding its neighbour's words.
OthersFlipped(l) == [k \in Lanes |-> IF k = l THEN execMask[k] ELSE ~execMask[k]]

OthersShifted(l) ==
    [r \in Vgprs |-> [k \in Lanes |->
        IF k = l THEN pre[r][k] ELSE pre[r][(k + 1) % NumVecElemPerVecReg]]]

\* C13: lane independence.  After execute the register file is the one
\* the lane loop gives from the lanes' results, and visiting the lanes in
\* any order gives the same destination vector as the order 0, 1, ...;
\* every active lane's destination is assigned exactly once; and the
\* destination words of an active lane stay the same when the other lanes'
\* exec bits are flipped, when the other lanes' register words are
\* replaced, and when both are.
C13_LaneIndependence ==
    pc = "done" =>
        /\ LET res == Tabulate(LaneResults(pre), NumVecElemPerVecReg)
               first == LaneLoopIn(LaneOrder0, 1, execMask, res, DstOf(pre))
           IN  /\ Commit(LaneOrder0, pre, execMask, res) = vrf
               /\ opcode \in LoopOpcodes =>
                     \A order \in LaneOrders :
                         LaneLoopIn(order, 1, execMask, res, DstOf(pre)) = first
        /\ \A l \in Lanes : execMask[l] =>
              /\ LaneWrites(0, execMask, [k \in Lanes |-> 0])[l] = 1
              /\ \A alt \in { <<pre, OthersFlipped(l)>>,
                               <<OthersShifted(l), execMask>>,
                               <<OthersShifted(l), OthersFlipped(l)>> } :
                    LET after == RunWith(LaneOrder0, alt[1], alt[2])
                    IN  \A r \in DstRegs : after[r][l] = vrf[r][l]

\* C13 witness: an instruction wrote a new destination word into active
\* lane l, and with the other lanes' words replaced and exec bits flipped
\* it leaves a different register file, lane l's destination being the same.
C13_Witness ==
    /\ pc = "done"
    /\ \E l \in Lanes :
          /\ execMask[l]
          /\ \E k \in Lanes : k # l /\ execMask[k]
          /\ \E r \in DstRegs : vrf[r][l] # pre[r][l]
          /\ LET alt == RunWith(LaneOrder0, OthersShifted(l), OthersFlipped(l))
             IN  /\ \E r \in DstRegs, k \in Lanes : alt[r][k] # vrf[r][k]
                 /\ \A r \in DstRegs : alt[r][l] = vrf[r][l]

\* C14: V_PK_MOV_B32 completes whatever NEG and NEG_HI are, has raised its
\* warning iff NEG or NEG_HI is not zero, and has written to every active
\* lane the dwords that OPSEL selects from the unmodified sources, the
\* same as with NEG = NEG_HI = 0.
C14_MovNegWarnsOnly ==
    (Executing /\ opcode = "v_pk_mov_b32") =>
        /\ pc = "done"
        /\ warned <=> (enc.NEG # 0 \/ enc.NEG_HI # 0)
        /\ \A l \in Lanes : execMask[l] =>
              NowU64(enc.VDST, l) =
                  [hi |-> Sel(enc.OPSEL, 1, PreU64(enc.SRC1, l)),
                   lo |-> Sel(enc.OPSEL, 0, PreU64(enc.SRC0, l))]

\* C14 witness: V_PK_MOV_B32 ran with NEG = 0 and NEG_HI = 7, warned, and
\* wrote a new value into an active lane.
C14_Witness ==
    /\ pc = "done" /\ opcode = "v_pk_mov_b32"
    /\ enc.NEG = 0 /\ enc.NEG_HI = 7
    /\ warned
    /\ \E l \in Lanes : execMask[l] /\ NowU64(enc.VDST, l) # PreU64(enc.VDST, l)

-----------------------------------------------------------------------------
(* Properties of the helpers and element operations (specification         *)
(* SpecElem).  The reference values are written from the arithmetic the    *)
(* claims state, without the limb operators of the model.                  *)

\* x saturated to the signed W-bit range.
SatI(W, x) ==
    IF x > (2 ^ (W - 1)) - 1 THEN (2 ^ (W - 1)) - 1
    ELSE IF x < -(2 ^ (W - 1)) THEN -(2 ^ (W - 1))
    ELSE x

\* x modulo 2^W, as a signed W-bit number.
WrapI(W, x) == (((x % (2 ^ W)) + 2 ^ (W - 1)) % (2 ^ W)) - 2 ^ (W - 1)

\* (a + b) modulo 2^32 on carriers, by cases on the signs.
WrapAdd(a, b) ==
    IF a >= 0 /\ b >= 0
    THEN IF a > MaxI32 - b THEN (a - MaxI32 - 1) + (b - MaxI32 - 1) ELSE a + b
    ELSE IF a < 0 /\ b < 0
         THEN IF a < MinI32 - b THEN (a + MaxI32 + 1) + (b + MaxI32 + 1) ELSE a + b
         ELSE a + b

\* Element i (width W) of word w, unsigned and signed.
ElemU(W, w, i) == (w \div (2 ^ (W * i))) % (2 ^ W)
ElemI(W, w, i) == WrapI(W, ElemU(W, w, i))

\* Sum over i in 0 .. n-1 of term[i].
RECURSIVE SumTo(_, _)
SumTo(term, n) == IF n = 0 THEN 0 ELSE SumTo(term, n - 1) + term[n - 1]

SignedDots == { "v_dot2_i32_i16", "v_dot4_i32_i8", "v_dot8_i32_i4" }
UnsignedDots == { "v_dot2_u32_u16", "v_dot4_u32_u8", "v_dot8_u32_u4" }

\* C3: the V_PK_ADD_I16 element operation returns S0 + S1 saturated to
\* [-32768, 32767] with clamp enabled (never outside the int16 range) and
\* (S0 + S1) modulo 2^16 as an int16 with clamp disabled.
C3_PkAddI16 ==
    (pc = "done" /\ fn = "v_pk_add_i16") =>
        /\ out \in -32768 .. 32767
        /\ out = IF arg.clamp THEN SatI(16, arg.S0 + arg.S1)
                              ELSE WrapI(16, arg.S0 + arg.S1)

\* C3 witness: 32000 + 1000 with clamp enabled gave 32767.
C3_Witness ==
    /\ pc = "done" /\ fn = "v_pk_add_i16"
    /\ arg.S0 = 32000 /\ arg.S1 = 1000 /\ arg.clamp
    /\ out = 32767

\* C4: a signed dot product with clamp enabled returns
\* (sum over i of sat_W(sext_W(S0[i]) * sext_W(S1[i])) + S2) modulo 2^32:
\* every product is clamped before the summation.
C4_SignedDotClampsEachProduct ==
    (pc = "done" /\ fn \in SignedDots /\ arg.clamp) =>
        LET W == arg.N
            term == [i \in 0 .. (32 \div W) - 1 |->
                        SatI(W, ElemI(W, arg.S0, i) * ElemI(W, arg.S1, i))]
        IN  out = WrapAdd(SumTo(term, 32 \div W), arg.S2)

\* C4 witness: V_DOT2_I32_I16 on {300, -5} and {200, 40} with S2 = 0 and
\* clamp enabled gave 32767 + (-200) = 32567, not the clamp of 59800.
C4_Witness ==
    /\ pc = "done" /\ fn = "v_dot2_i32_i16" /\ arg.clamp
    /\ ElemI(16, arg.S0, 0) = 300 /\ ElemI(16, arg.S0, 1) = -5
    /\ ElemI(16, arg.S1, 0) = 200 /\ ElemI(16, arg.S1, 1) = 40
    /\ arg.S2 = 0
    /\ out = 32567

\* min(a * b, 2^W - 1) for a, b in 0 .. 2^W - 1, without forming a
\* product above 2^W - 1.
SatProdU(W, a, b) ==
    IF b # 0 /\ a > ((2 ^ W) - 1) \div b THEN (2 ^ W) - 1 ELSE a * b

\* C5: an unsigned dot product with clamp enabled returns
\* (sum over i of min(S0[i] * S1[i], 2^W - 1) + S2) modulo 2^32.
C5_UnsignedDotSaturates ==
    (pc = "done" /\ fn \in UnsignedDots /\ arg.clamp) =>
        LET W == arg.N
            term == [i \in 0 .. (32 \div W) - 1 |->
                        SatProdU(W, ElemU(W, arg.S0, i), ElemU(W, arg.S1, i))]
        IN  out = WrapAdd(SumTo(term, 32 \div W), arg.S2)

\* (a * b) modulo 2^W for a, b in 0 .. 65535.
MulModU(W, a, b) ==
    ((a * (b % 256) + ((a * (b \div 256)) % 256) * 256) % 65536) % (2 ^ W)

\* C6: with clamp disabled clampI16 and clampU16 return the value modulo
\* 2^16 (as int16, as uint16), dotClampI<N> and dotClampU<N> return the
\* value truncated to N bits, and every dot product accumulates its
\* products truncated to W bits.
C6_NoClampTruncates ==
    (pc = "done" /\ ~arg.clamp) =>
        LET W == arg.N
            termI == [i \in 0 .. (32 \div W) - 1 |->
                        WrapI(W, ElemI(W, arg.S0, i) * ElemI(W, arg.S1, i))]
            termU == [i \in 0 .. (32 \div W) - 1 |->
                        MulModU(W, ElemU(W, arg.S0, i), ElemU(W, arg.S1, i))]
        IN  /\ fn = "clampI16" => out = WrapI(16, arg.S0)
            /\ fn = "clampU16" => out = arg.S0 % 65536
            /\ fn = "dotClampI" => out = WrapI(W, arg.S0)
            /\ fn = "dotClampU" => out = arg.S0 % (2 ^ W)
            /\ fn \in SignedDots => out = WrapAdd(SumTo(termI, 32 \div W), arg.S2)
            /\ fn \in UnsignedDots => out = WrapAdd(SumTo(termU, 32 \div W), arg.S2)

\* C7: with clamp enabled clampI16 and dotClampI<N> return a value of
\* [-2^(N-1), 2^(N-1) - 1], return a value of that range unchanged, and
\* clamping the result again changes nothing.
C7_SignedClampIdempotent ==
    (pc = "done" /\ fn \in { "clampI16", "dotClampI" } /\ arg.clamp) =>
        LET N == arg.N
            lo == -(2 ^ (N - 1))
            hi == (2 ^ (N - 1)) - 1
            again == IF fn = "clampI16" THEN clampI16(out, TRUE)
                                        ELSE dotClampI(N, out, TRUE)
        IN  /\ lo <= out /\ out <= hi
            /\ (lo <= arg.S0 /\ arg.S0 <= hi) => out = arg.S0
            /\ again = out

\* C7 witness: dotClampI<4> clamped 8, one above the range, to 7.
C7_Witness ==
    /\ pc = "done" /\ fn = "dotClampI" /\ arg.clamp
    /\ arg.N = 4 /\ arg.S0 = 8
    /\ out = 7

\* The executed dot product with third source S2.
DotWith(S2) ==
    CASE fn = "v_dot2_i32_i16" -> V_DOT2_I32_I16(arg.S0, arg.S1, S2, arg.clamp)
      [] fn = "v_dot2_u32_u16" -> V_DOT2_U32_U16(arg.S0, arg.S1, S2, arg.clamp)
      [] fn = "v_dot4_i32_i8" -> V_DOT4_I32_I8(arg.S0, arg.S1, S2, arg.clamp)
      [] fn = "v_dot4_u32_u8" -> V_DOT4_U32_U8(arg.S0, arg.S1, S2, arg.clamp)
      [] fn = "v_dot8_i32_i4" -> V_DOT8_I32_I4(arg.S0, arg.S1, S2, arg.clamp)
      [] fn = "v_dot8_u32_u4" -> V_DOT8_U32_U4(arg.S0, arg.S1, S2, arg.clamp)

\* C8: in the six integer dot products, clamp set or not, the result is
\* (accumulated sum of products + S2) modulo 2^32: S2 is added unclamped
\* and the result may wrap.
C8_AddendNotClamped ==
    (pc = "done" /\ fn \in SignedDots \cup UnsignedDots) =>
        out = WrapAdd(DotWith(0), arg.S2)

\* C8 witness: a signed dot product with clamp set whose positive sum of
\* products, added to S2 = 2^31 - 1, wrapped to a negative result.
C8_Witness ==
    /\ pc = "done" /\ fn \in SignedDots /\ arg.clamp
    /\ arg.S2 = MaxI32
    /\ DotWith(0) > 0
    /\ out < 0

\* C15: the V_PK_SUB_U16 element operation with clamp enabled returns
\* S0 - S1 saturated to [0, 65535]: S0 - S1 when S0 >= S1 and 0 when
\* S0 < S1.
C15_PkSubU16Saturates ==
    (pc = "done" /\ fn = "v_pk_sub_u16" /\ arg.clamp) =>
        out = IF arg.S0 >= arg.S1 THEN arg.S0 - arg.S1 ELSE 0

====
